---------------------------- MODULE Spec2Model ----------------------------
(***************************************************************************)
(* A model of pocketchemist's processor core                               *)
(* (src/pocketchemist/processors/processor.py):                            *)
(*   - Module: the lazy, cached resolution of an optional import           *)
(*     (get_module, get_callable, print), sequentially (SpecModule) and    *)
(*     with threads interleaving inside get_module (SpecConc);             *)
(*   - Processor.__init__: the check and the collection of the keyword     *)
(*     parameters (SpecInit);                                              *)
(*   - GroupProcessor: add / += and the depth-first process (SpecGroup).   *)
(***************************************************************************)
EXTENDS Integers, Sequences, FiniteSets

VARIABLES
    \* ---- Module (class attribute and the import system)
    modules,      \* Module._modules: the dict name -> module or None
    env,          \* what import_module(name) does in this interpreter
    imports,      \* number of import_module(name) calls made so far
    ret,          \* the outcome of the last Module method call
    \* ---- threads inside get_module
    pc,           \* the line each thread is at
    tkey,         \* each thread's local `key`
    tmod,         \* each thread's local `module`
    tcached,      \* whether `key` was already cached when the call started
    trv,          \* what each thread's last get_module returned
    \* ---- Processor.__init__
    obj,          \* the outcome of the last construction
    \* ---- GroupProcessor
    processors,   \* group -> its list self.processors
    stack,        \* the Python call stack of process() frames
    status,       \* idle | running | raising | returned | raised
    root,         \* the group the caller called process on
    ctx,          \* the caller's own context dict
    trace,        \* the calls made since the caller's call
    error,        \* the exception in flight, or the one that escaped
    finished,     \* the outermost frame as it was when it was left
    lastOp        \* the last call made on a group by the caller

moduleVars == <<modules, env, imports, ret>>
threadVars == <<pc, tkey, tmod, tcached, trv>>
initVars == <<obj>>
groupVars == <<processors, stack, status, root, ctx, trace, error, finished, lastOp>>
vars == <<modules, env, imports, ret, pc, tkey, tmod, tcached, trv, obj,
          processors, stack, status, root, ctx, trace, error, finished, lastOp>>

(***************************************************************************)
(* Python values                                                           *)
(***************************************************************************)
NoValue == [kind |-> "unset", name |-> "", attr |-> ""]
None == [kind |-> "None", name |-> "", attr |-> ""]
ModuleObj(n) == [kind |-> "module", name |-> n, attr |-> ""]
AttrObj(n, a) == [kind |-> "attr", name |-> n, attr |-> a]
TypeObj(n) == [kind |-> "type", name |-> n, attr |-> ""]

\* A dict is a function whose domain is its set of keys.
EmptyDict == [k \in {} |-> 0]
DictSet(d, k, v) == [x \in DOMAIN d \cup {k} |-> IF x = k THEN v ELSE d[x]]

(***************************************************************************)
(* Module                                                                  *)
(***************************************************************************)
MaxCalls == 3

Names == {"pkg_a", "pkg_b"}
Categories == {"nmr", "fit"}
CallableNames == {"fft", "read", "__class__"}
Modules == [category : Categories, name : Names, callable_name : CallableNames]

\* import_module(name): returns the module, raises ImportError (which
\* ModuleNotFoundError is), or raises whatever else the module's own top-level
\* code raises.
ImportOutcomes == {"ok", "ImportError", "Exception"}

\* The names a loaded unit defines; every object, None included, has __class__.
Exported(n) == IF n = "pkg_a" THEN {"fft"} ELSE {"read"}
NoneAttrs == {"__class__"}

\* getattr(o, a, default) of line 69.
getattr(o, a, default) ==
    IF o.kind = "None"
    THEN IF a \in NoneAttrs THEN TypeObj("NoneType") ELSE default
    ELSE IF a \in Exported(o.name) THEN AttrObj(o.name, a)
         ELSE IF a = "__class__" THEN TypeObj("module") ELSE default

\* get_module without the test of line 46: every call imports.
get_module_nocache(mods, cnt, m) ==
    LET key == m.name
        out == env[key]
    IN IF out = "ok"
       THEN [mods |-> DictSet(mods, key, ModuleObj(key)),
             cnt |-> [cnt EXCEPT ![key] = @ + 1],
             load |-> out, raised |-> FALSE, rv |-> ModuleObj(key),
             out |-> <<>>]
       ELSE IF out = "ImportError"
       THEN [mods |-> DictSet(mods, key, None),
             cnt |-> [cnt EXCEPT ![key] = @ + 1],
             load |-> out, raised |-> FALSE, rv |-> None,
             out |-> <<>>]
       ELSE [mods |-> mods, cnt |-> [cnt EXCEPT ![key] = @ + 1],
             load |-> out, raised |-> TRUE, rv |-> NoValue,
             out |-> <<>>]

\* get_module with `except ImportError` missing: the ImportError escapes.
get_module_nocatch(mods, cnt, m) ==
    LET key == m.name
        out == env[key]
    IN IF key \in DOMAIN mods
       THEN [mods |-> mods, cnt |-> cnt, load |-> "none",
             raised |-> FALSE, rv |-> mods[key], out |-> <<>>]
       ELSE IF out = "ok"
       THEN [mods |-> DictSet(mods, key, ModuleObj(key)),
             cnt |-> [cnt EXCEPT ![key] = @ + 1],
             load |-> out, raised |-> FALSE, rv |-> ModuleObj(key),
             out |-> <<>>]
       ELSE [mods |-> mods, cnt |-> [cnt EXCEPT ![key] = @ + 1],
             load |-> out, raised |-> TRUE, rv |-> NoValue,
             out |-> <<>>]

\* Module.get_module (lines 35-56) as a function of the cache and the import
\* counter: the new cache, the new counter, what the import did ("none" when
\* the cache answered), and the value returned or the fact that the call raised.
get_module(mods, cnt, m) ==
    LET key == m.name
        out == env[key]
    IN IF key \in DOMAIN mods
       THEN [mods |-> mods, cnt |-> cnt, load |-> "none",
             raised |-> FALSE, rv |-> mods[key], out |-> <<>>]
       ELSE IF out = "ok"
       THEN [mods |-> DictSet(mods, key, ModuleObj(key)),
             cnt |-> [cnt EXCEPT ![key] = @ + 1],
             load |-> out, raised |-> FALSE, rv |-> ModuleObj(key),
             out |-> <<>>]
       ELSE IF out = "ImportError"
       THEN [mods |-> DictSet(mods, key, None),
             cnt |-> [cnt EXCEPT ![key] = @ + 1],
             load |-> out, raised |-> FALSE, rv |-> None,
             out |-> <<>>]
       ELSE [mods |-> mods, cnt |-> [cnt EXCEPT ![key] = @ + 1],
             load |-> out, raised |-> TRUE, rv |-> NoValue,
             out |-> <<>>]

\* Module.get_callable (lines 58-69).
get_callable(mods, cnt, m) ==
    LET g == get_module(mods, cnt, m)
    IN IF g.raised THEN g
       ELSE [g EXCEPT !.rv = getattr(g.rv, m.callable_name, None)]

\* The availability line Module.print builds (lines 97-104).
Availability(module_available, callable_available) ==
    <<IF module_available THEN "AVAILABLE" ELSE "NOT FOUND",
      IF callable_available THEN "AVAILABLE" ELSE "NOT FOUND">>

\* Module.print (lines 77-112): get_module, then get_callable, then the echo
\* of the availability line; print itself returns None.
print(mods, cnt, m) ==
    LET g == get_module(mods, cnt, m)
        c == get_callable(g.mods, g.cnt, m)
    IN IF g.raised THEN [g EXCEPT !.out = <<>>]
       ELSE IF c.raised THEN [c EXCEPT !.load = g.load, !.out = <<>>]
       ELSE [mods |-> c.mods, cnt |-> c.cnt, load |-> g.load, raised |-> FALSE,
             rv |-> None, out |-> Availability(g.rv # None, c.rv # None)]

\* What the caller of a Module method observes: the value returned (or that
\* the call raised), the lines echoed, and what the import system was asked.
Returned(op, m, r, before) ==
    [op |-> op, m |-> m, load |-> r.load, raised |-> r.raised, rv |-> r.rv,
     out |-> r.out,
     cached |-> m.name \in DOMAIN before,
     module |-> IF m.name \in DOMAIN r.mods THEN r.mods[m.name] ELSE NoValue]

NoCall ==
    [op |-> "none", m |-> [category |-> "", name |-> "", callable_name |-> ""],
     load |-> "none", raised |-> FALSE, rv |-> NoValue, out |-> <<>>,
     cached |-> FALSE, module |-> NoValue]

\* The bound on the import counter: a call that would import is not made
\* once MaxCalls imports of its name have been made.
MayCall(m) == m.name \in DOMAIN modules \/ imports[m.name] < MaxCalls

GetModule(m) ==
    /\ MayCall(m)
    /\ LET r == get_module(modules, imports, m)
       IN /\ modules' = r.mods
          /\ imports' = r.cnt
          /\ ret' = Returned("get_module", m, r, modules)
    /\ UNCHANGED <<env, threadVars, initVars, groupVars>>

GetCallable(m) ==
    /\ MayCall(m)
    /\ LET r == get_callable(modules, imports, m)
       IN /\ modules' = r.mods
          /\ imports' = r.cnt
          /\ ret' = Returned("get_callable", m, r, modules)
    /\ UNCHANGED <<env, threadVars, initVars, groupVars>>

PrintModule(m) ==
    /\ MayCall(m)
    /\ LET r == print(modules, imports, m)
       IN /\ modules' = r.mods
          /\ imports' = r.cnt
          /\ ret' = Returned("print", m, r, modules)
    /\ UNCHANGED <<env, threadVars, initVars, groupVars>>

ModuleInit ==
    /\ modules = EmptyDict
    /\ env \in [Names -> ImportOutcomes]
    /\ imports = [n \in Names |-> 0]
    /\ ret = NoCall
    /\ pc = <<>> /\ tkey = <<>> /\ tmod = <<>> /\ tcached = <<>> /\ trv = <<>>
    /\ obj = [op |-> "none"]
    /\ processors = <<>> /\ stack = <<>> /\ status = "idle" /\ root = ""
    /\ ctx = EmptyDict /\ trace = <<>> /\ error = NoValue
    /\ finished = NoValue /\ lastOp = NoValue

ModuleNext ==
    \/ \E m \in Modules : GetModule(m)
    \/ \E m \in Modules : GetCallable(m)
    \/ \E m \in Modules : PrintModule(m)

SpecModule == ModuleInit /\ [][ModuleNext]_vars

\* What reading callable_name directly from a resolved unit gives.
DirectAttr(n, a) ==
    IF a \in Exported(n) THEN AttrObj(n, a)
    ELSE IF a = "__class__" THEN TypeObj("module") ELSE None

\* C3, as stated: in any sequence of get_module / get_callable / print calls
\* at most one import is ever attempted per name, and the first attempt
\* leaves the name resolved in the cache.
C3_AtMostOneImport ==
    \A n \in Names :
        /\ imports[n] <= 1
        /\ imports[n] = 1 => n \in DOMAIN modules

\* C3, amended: a name that is in the cache stays there with the same value
\* and is never imported again, and a call for it returns the cached outcome;
\* a call imports at most once, and that import resolves the name unless it
\* raised something other than ImportError, in which case the name stays
\* unresolved (only such names are ever imported twice).
C3_CachedNeverReimported ==
    /\ [](\A n \in Names : imports[n] > 1 => env[n] = "Exception")
    /\ [][\A n \in Names :
            /\ n \in DOMAIN modules =>
                /\ n \in DOMAIN modules'
                /\ modules'[n] = modules[n]
                /\ imports'[n] = imports[n]
                /\ ret'.m.name = n =>
                    /\ ~ret'.raised
                    /\ ret'.module = modules[n]
                    /\ ret'.op = "get_module" => ret'.rv = modules[n]
            /\ imports'[n] # imports[n] =>
                /\ imports'[n] = imports[n] + 1
                /\ (n \in DOMAIN modules') <=> (env[n] # "Exception")]_vars

C3_Witness ==
    /\ ret.cached /\ ret.op = "get_callable" /\ ~ret.raised
    /\ imports[ret.m.name] = 1
    /\ \E n \in Names : imports[n] >= 2

\* C4, as stated: get_module never raises; whatever makes the load fail, None
\* is cached under the name and returned.
C4_NeverRaises ==
    ret.op = "get_module" =>
        /\ ~ret.raised
        /\ (~ret.cached /\ env[ret.m.name] # "ok") =>
               (ret.rv = None /\ ret.module = None)

\* C4, amended: get_module raises exactly when the name was not cached and
\* its import raised something other than ImportError, and then nothing is
\* cached; on ImportError it caches None under the name and returns None; on
\* success it caches and returns the module.
C4_OnlyImportErrorIsCaught ==
    (ret.op = "get_module" /\ ~ret.cached) =>
        /\ ret.raised <=> (env[ret.m.name] = "Exception")
        /\ env[ret.m.name] = "Exception" => ret.module = NoValue
        /\ env[ret.m.name] = "ImportError" =>
               (ret.rv = None /\ ret.module = None)
        /\ env[ret.m.name] = "ok" =>
               (ret.rv = ModuleObj(ret.m.name) /\ ret.module = ret.rv)

C4_Witness ==
    /\ ret.op = "get_module" /\ ~ret.cached
    /\ env[ret.m.name] = "ImportError" /\ ret.rv = None /\ ~ret.raised
    /\ \E n \in Names : env[n] = "Exception" /\ imports[n] >= 1

\* C5: get_callable returns None whenever the module is unavailable, None
\* when the loaded unit lacks callable_name, and otherwise the attribute read
\* directly from the resolved unit -- for every callable_name.
C5_CallableOnlyFromLoadedUnit ==
    (ret.op = "get_callable" /\ ~ret.raised) =>
        ret.rv = IF ret.module = None THEN None
                 ELSE DirectAttr(ret.m.name, ret.m.callable_name)

(***************************************************************************)
(* Module.get_module called from several threads: the interpreter may      *)
(* switch threads between any two lines of lines 44-56, and nothing        *)
(* guards Module._modules.                                                 *)
(***************************************************************************)
NumThreads == 2
Threads == 1 .. NumThreads

ConcInit ==
    /\ modules = EmptyDict
    /\ env \in [Names -> ImportOutcomes]
    /\ imports = [n \in Names |-> 0]
    /\ ret = NoCall
    /\ pc = [t \in Threads |-> "idle"]
    /\ tkey = [t \in Threads |-> ""]
    /\ tmod = [t \in Threads |-> NoValue]
    /\ tcached = [t \in Threads |-> FALSE]
    /\ trv = [t \in Threads |-> NoValue]
    /\ obj = [op |-> "none"]
    /\ processors = <<>> /\ stack = <<>> /\ status = "idle" /\ root = ""
    /\ ctx = EmptyDict /\ trace = <<>> /\ error = NoValue
    /\ finished = NoValue /\ lastOp = NoValue

ConcRest == <<env, ret, initVars, groupVars>>

\* Line 44: key = self.name.
Call(t, m) ==
    /\ pc[t] = "idle"
    /\ MayCall(m)
    /\ tkey' = [tkey EXCEPT ![t] = m.name]
    /\ tcached' = [tcached EXCEPT ![t] = m.name \in DOMAIN modules]
    /\ tmod' = [tmod EXCEPT ![t] = NoValue]
    /\ trv' = [trv EXCEPT ![t] = NoValue]
    /\ pc' = [pc EXCEPT ![t] = "test"]
    /\ UNCHANGED <<modules, imports, ConcRest>>

\* Lines 46-47 left out: the thread goes on to the import whatever is cached.
TestNoCache(t) ==
    /\ pc[t] = "test"
    /\ pc' = [pc EXCEPT ![t] = "import"]
    /\ UNCHANGED <<modules, imports, tkey, tmod, tcached, trv, ConcRest>>

\* Lines 46-47: if key in Module._modules: return Module._modules[key].
Test(t) ==
    /\ pc[t] = "test"
    /\ IF tkey[t] \in DOMAIN modules
       THEN /\ trv' = [trv EXCEPT ![t] = modules[tkey[t]]]
            /\ pc' = [pc EXCEPT ![t] = "idle"]
       ELSE /\ pc' = [pc EXCEPT ![t] = "import"]
            /\ trv' = trv
    /\ UNCHANGED <<modules, imports, tkey, tmod, tcached, ConcRest>>

\* Line 51: module = import_module(key); an exception that is not an
\* ImportError leaves get_module here.
Import(t) ==
    /\ pc[t] = "import"
    /\ imports' = [imports EXCEPT ![tkey[t]] = @ + 1]
    /\ IF env[tkey[t]] = "ok"
       THEN /\ tmod' = [tmod EXCEPT ![t] = ModuleObj(tkey[t])]
            /\ pc' = [pc EXCEPT ![t] = "store"]
       ELSE IF env[tkey[t]] = "ImportError"
       THEN /\ pc' = [pc EXCEPT ![t] = "except"]
            /\ tmod' = tmod
       ELSE /\ pc' = [pc EXCEPT ![t] = "raised"]
            /\ tmod' = tmod
    /\ UNCHANGED <<modules, tkey, tcached, trv, ConcRest>>

\* Line 52: Module._modules[key] = module.
Store(t) ==
    /\ pc[t] = "store"
    /\ modules' = DictSet(modules, tkey[t], tmod[t])
    /\ pc' = [pc EXCEPT ![t] = "return"]
    /\ UNCHANGED <<imports, tkey, tmod, tcached, trv, ConcRest>>

\* Lines 53-54: except ImportError: Module._modules[key] = None.
Except(t) ==
    /\ pc[t] = "except"
    /\ modules' = DictSet(modules, tkey[t], None)
    /\ pc' = [pc EXCEPT ![t] = "return"]
    /\ UNCHANGED <<imports, tkey, tmod, tcached, trv, ConcRest>>

\* Line 56: return Module._modules[key].
Return(t) ==
    /\ pc[t] = "return"
    /\ trv' = [trv EXCEPT ![t] = modules[tkey[t]]]
    /\ pc' = [pc EXCEPT ![t] = "idle"]
    /\ UNCHANGED <<modules, imports, tkey, tmod, tcached, ConcRest>>

\* The caller of a get_module that raised goes on.
Caught(t) ==
    /\ pc[t] = "raised"
    /\ pc' = [pc EXCEPT ![t] = "idle"]
    /\ UNCHANGED <<modules, imports, tkey, tmod, tcached, trv, ConcRest>>

ConcNext ==
    \/ \E t \in Threads, m \in Modules : Call(t, m)
    \/ \E t \in Threads : Test(t)
    \/ \E t \in Threads : Import(t)
    \/ \E t \in Threads : Store(t)
    \/ \E t \in Threads : Except(t)
    \/ \E t \in Threads : Return(t)
    \/ \E t \in Threads : Caught(t)

SpecConc == ConcInit /\ [][ConcNext]_vars

\* C10: a get_module that starts after the cache entry of its name has been
\* written performs no load: only a call that started with the name
\* unresolved ever reaches the import, and every import made is made by such
\* a call.  (That two callers that both start before the entry is written can
\* both load is the state C10_Witness, which is reachable.)
C10_NoLoadOnceCached ==
    /\ [](\A t \in Threads :
            pc[t] \in {"import", "store", "except"} => ~tcached[t])
    /\ [][\A n \in Names :
            imports'[n] # imports[n] =>
                \E t \in Threads :
                    /\ pc[t] = "import" /\ tkey[t] = n /\ ~tcached[t]
                    /\ imports'[n] = imports[n] + 1]_vars

C10_Witness ==
    \E n \in Names :
        /\ env[n] = "ok" /\ imports[n] = 2 /\ n \in DOMAIN modules
        /\ \E t \in Threads :
              /\ tkey[t] = n /\ tcached[t] /\ pc[t] = "idle"
              /\ trv[t] = ModuleObj(n)

(***************************************************************************)
(* Processor.__init__                                                      *)
(***************************************************************************)
ToSet(tuple) == {tuple[i] : i \in DOMAIN tuple}

\* Processor variants: the class attributes required_params and
\* optional_params (lines 131-132), tuples that subclasses override.
Variants == {"Processor", "GroupProcessor", "FT", "Fit", "Named"}
required_params(cls) ==
    CASE cls = "FT" -> <<"x">>
      [] cls = "Fit" -> <<"x", "y">>
      [] cls = "Named" -> <<"x">>
      [] OTHER -> <<>>
optional_params(cls) ==
    CASE cls = "FT" -> <<"y">>
      [] cls = "Fit" -> <<"z", "y">>
      [] cls = "Named" -> <<"name", "y">>
      [] OTHER -> <<>>

\* The keyword arguments of a call Variant(**kw).
ArgNames == {"name", "x", "y", "z"}
ArgValues == {"1.0", "sine"}
KeywordArgs ==
    UNION {[keys -> ArgValues] : keys \in SUBSET ArgNames}

\* Line 140, def __init__(self, name=None, *args, **kwargs): Python binds a
\* keyword called name to the parameter name; kwargs holds the other keywords.
kwargs_of(kw) == [k \in DOMAIN kw \ {"name"} |-> kw[k]]
name_of(kw) == IF "name" \in DOMAIN kw THEN <<kw["name"]>> ELSE <<>>

\* Line 150 with only the first required name tested.
missing_params_first(cls, kwargs) ==
    IF required_params(cls) # <<>> /\ required_params(cls)[1] \notin DOMAIN kwargs
    THEN {required_params(cls)[1]}
    ELSE {}

\* Line 150: set(self.required_params) - kwargs.keys().
missing_params(cls, kwargs) ==
    ToSet(required_params(cls)) \ DOMAIN kwargs

\* Lines 157-159 with every supplied keyword kept.
specified_params_all(cls, kwargs) ==
    DOMAIN kwargs

\* Lines 157-159: available_params.intersection(kwargs.keys()).
specified_params(cls, kwargs) ==
    LET available_params ==
            ToSet(required_params(cls)) \cup ToSet(optional_params(cls))
    IN available_params \cap DOMAIN kwargs

\* Processor.__init__ (lines 140-161), and GroupProcessor.__init__ (lines
\* 217-219) for the group: the object built, or the ValueError raised.
Processor_init(cls, kw) ==
    LET kwargs == kwargs_of(kw)
        missing == missing_params(cls, kwargs)
    IN IF Cardinality(missing) > 0
       THEN [op |-> "init", cls |-> cls, kw |-> kw, kwargs |-> kwargs,
             raised |-> TRUE, exc |-> "ValueError", missing |-> missing,
             name |-> <<>>, params |-> EmptyDict, processors |-> <<>>]
       ELSE [op |-> "init", cls |-> cls, kw |-> kw, kwargs |-> kwargs,
             raised |-> FALSE, exc |-> "", missing |-> {},
             name |-> name_of(kw),
             params |-> [k \in specified_params(cls, kwargs) |-> kwargs[k]],
             processors |-> <<>>]

InitInit ==
    /\ obj = [op |-> "none"]
    /\ modules = EmptyDict
    /\ env = [n \in Names |-> "ok"]
    /\ imports = [n \in Names |-> 0]
    /\ ret = NoCall
    /\ pc = <<>> /\ tkey = <<>> /\ tmod = <<>> /\ tcached = <<>> /\ trv = <<>>
    /\ processors = <<>> /\ stack = <<>> /\ status = "idle" /\ root = ""
    /\ ctx = EmptyDict /\ trace = <<>> /\ error = NoValue
    /\ finished = NoValue /\ lastOp = NoValue

Construct(cls, kw) ==
    /\ obj' = Processor_init(cls, kw)
    /\ UNCHANGED <<moduleVars, threadVars, groupVars>>

InitNext ==
    \E cls \in Variants, kw \in KeywordArgs : Construct(cls, kw)

SpecInit == InitInit /\ [][InitNext]_vars

\* C6: construction fails, with a ValueError, if and only if some name of
\* required_params is not among the kwargs, and the error names exactly the
\* required names that were not supplied, whatever else was supplied.
C6_MissingParameters ==
    obj.op = "init" =>
        LET required == {required_params(obj.cls)[i] :
                            i \in 1 .. Len(required_params(obj.cls))}
            absent == {r \in required : r \notin DOMAIN obj.kwargs}
        IN /\ obj.raised <=> (absent # {})
           /\ obj.raised => (obj.exc = "ValueError" /\ obj.missing = absent)

C6_Witness ==
    /\ obj.op = "init" /\ obj.cls = "Fit" /\ obj.raised
    /\ obj.missing = {"x", "y"} /\ DOMAIN obj.kwargs = {"z"}

\* C7: after a successful construction params holds exactly the supplied
\* kwargs whose name is in required_params or optional_params, each with the
\* value supplied; a keyword in neither is dropped without an error.
C7_ParamsAreRecognizedSupplied ==
    (obj.op = "init" /\ ~obj.raised) =>
        /\ \A k \in ArgNames :
              k \in DOMAIN obj.params <=>
                  /\ k \in DOMAIN obj.kwargs
                  /\ \/ \E i \in 1 .. Len(required_params(obj.cls)) :
                            required_params(obj.cls)[i] = k
                     \/ \E i \in 1 .. Len(optional_params(obj.cls)) :
                            optional_params(obj.cls)[i] = k
        /\ \A k \in DOMAIN obj.params : obj.params[k] = obj.kwargs[k]
        /\ DOMAIN obj.params \subseteq ArgNames

C7_Witness ==
    /\ obj.op = "init" /\ obj.cls = "FT" /\ ~obj.raised
    /\ DOMAIN obj.kwargs = {"x", "y", "z"}
    /\ DOMAIN obj.params = {"x", "y"}
    /\ obj.params["x"] = "sine" /\ obj.params["y"] = "1.0"

(***************************************************************************)
(* GroupProcessor: add, +=, process                                        *)
(***************************************************************************)
MaxChildren == 2
MaxDepth == 3

\* The objects of a pipeline: two concrete leaf Processors, one whose process
\* puts its result in its kwargs under "x" (the docstring of lines 176-183)
\* and one whose process raises, and two GroupProcessors.  Anything may be
\* handed to add: a group, the group itself, or something that is no
\* Processor at all.
Leaves == {"A", "R"}
Groups == {"G1", "G2"}
ProcessorObjs == Leaves \cup Groups
OtherObjs == {"42", "Module"}
Objs == ProcessorObjs \cup OtherObjs

\* The contexts a caller calls process(**ctx) with.
Contexts == {EmptyDict, [k \in {"x"} |-> "raw"]}

\* isinstance that lets everything through.
isinstance_any(v) == TRUE

\* Line 238: isinstance(processor, Processor).
isinstance_Processor(v) == v \in ProcessorObjs

\* GroupProcessor.add (lines 230-242): the new lists, or the TypeError.
add(procs, g, v) ==
    IF isinstance_Processor(v)
    THEN [procs |-> [procs EXCEPT ![g] = Append(@, v)],
          raised |-> FALSE, exc |-> ""]
    ELSE [procs |-> procs, raised |-> TRUE, exc |-> "TypeError"]

\* The caller is not inside a process call (one thread: section 5).
CallerRuns == status \in {"idle", "returned", "raised"}

\* A call by the caller starts from no call in progress.
AtRest ==
    /\ stack' = <<>> /\ status' = "idle" /\ root' = "" /\ ctx' = EmptyDict
    /\ trace' = <<>> /\ error' = NoValue /\ finished' = NoValue

\* g.add(v)
Add(g, v) ==
    /\ CallerRuns
    /\ Len(processors[g]) < MaxChildren
    /\ LET r == add(processors, g, v)
       IN /\ processors' = r.procs
          /\ lastOp' = [op |-> "add", g |-> g, v |-> v,
                        raised |-> r.raised, exc |-> r.exc]
    /\ AtRest
    /\ UNCHANGED <<moduleVars, threadVars, initVars>>

\* g += v (lines 226-228): add, then the group itself is the result.
IAdd(g, v) ==
    /\ CallerRuns
    /\ Len(processors[g]) < MaxChildren
    /\ LET r == add(processors, g, v)
       IN /\ processors' = r.procs
          /\ lastOp' = [op |-> "iadd", g |-> g, v |-> v,
                        raised |-> r.raised, exc |-> r.exc]
    /\ AtRest
    /\ UNCHANGED <<moduleVars, threadVars, initVars>>

\* A process(**kwargs) frame: the object, the position of the for loop of
\* line 250 (of the body, for a leaf), the frame's own kwargs dict, and the
\* record of the children it has called and of those that have returned.
Frame(p, kwargs, fid) ==
    [self |-> p, i |-> 1, kwargs |-> kwargs, invoked |-> <<>>,
     returned |-> <<>>, fid |-> fid]

Event(ev, p, parent, saw) == [ev |-> ev, p |-> p, parent |-> parent, saw |-> saw]

Top == stack[Len(stack)]

\* The element the iterator of line 250 yields last first.
child_at_reversed(procs, i) == procs[Len(procs) + 1 - i]

\* Line 250: the i-th element the iterator of self.processors yields.
child_at(procs, i) == procs[i]

\* The caller's g.process(**c).  self.processors is a list from __init__ on
\* (line 219) and add only appends to it, so the guard of lines 246-247 lets
\* every call through to the loop.
CallProcess(g, c) ==
    /\ CallerRuns
    /\ stack' = <<Frame(g, c, 1)>>
    /\ status' = "running"
    /\ root' = g
    /\ ctx' = c
    /\ trace' = <<Event("call", g, 0, <<>>)>>
    /\ error' = NoValue
    /\ finished' = NoValue
    /\ lastOp' = [op |-> "process", g |-> g, v |-> "", raised |-> FALSE,
                  exc |-> ""]
    /\ UNCHANGED <<processors, moduleVars, threadVars, initVars>>

\* Lines 250-251: rv = processor.process(**kwargs) for the next processor of
\* the list.  The ** builds the callee's kwargs, a new dict with the caller's
\* entries; the interpreter raises RecursionError instead of entering a frame
\* beyond its recursion limit.
CallChild ==
    /\ status = "running"
    /\ Top.self \in Groups
    /\ Top.i <= Len(processors[Top.self])
    /\ LET n == Len(stack)
           child == child_at(processors[Top.self], Top.i)
           called == [stack EXCEPT ![n].invoked = Append(@, Top.i)]
       IN IF n >= MaxDepth
          THEN /\ stack' = called
               /\ status' = "raising"
               /\ error' = [exc |-> "RecursionError", origin |-> child]
               /\ trace' = trace
          ELSE /\ stack' = Append(called, Frame(child, Top.kwargs, Len(trace) + 1))
               /\ trace' = Append(trace, Event("call", child, Top.fid, <<>>))
               /\ UNCHANGED <<status, error>>
    /\ UNCHANGED <<processors, root, ctx, finished, lastOp>>
    /\ UNCHANGED <<moduleVars, threadVars, initVars>>

\* The stack after the top frame has returned: the frame below goes on with
\* the next element of its list.
ReturnTo(stk) ==
    LET n == Len(stk)
    IN IF n = 1 THEN <<>>
       ELSE [SubSeq(stk, 1, n - 1) EXCEPT ![n - 1].i = @ + 1,
                                          ![n - 1].returned = Append(@, stk[n - 1].i)]

\* The for loop of line 250 is exhausted: process returns (None).
GroupReturn ==
    /\ status = "running"
    /\ Top.self \in Groups
    /\ Top.i > Len(processors[Top.self])
    /\ stack' = ReturnTo(stack)
    /\ trace' = Append(trace, Event("return", Top.self, Top.fid, <<>>))
    /\ IF Len(stack) = 1
       THEN status' = "returned" /\ finished' = Top
       ELSE UNCHANGED <<status, finished>>
    /\ UNCHANGED <<processors, root, ctx, error, lastOp>>
    /\ UNCHANGED <<moduleVars, threadVars, initVars>>

\* The body of leaf A's process(**kwargs): it reads "x" and places its result
\* in the kwargs it was given (lines 175-184).
LeafProcess ==
    /\ status = "running"
    /\ Top.self = "A"
    /\ Top.i = 1
    /\ LET n == Len(stack)
           saw == IF "x" \in DOMAIN Top.kwargs THEN <<Top.kwargs["x"]>> ELSE <<>>
       IN /\ stack' = [stack EXCEPT ![n].kwargs = DictSet(@, "x", "A"),
                                    ![n].i = 2]
          /\ trace' = Append(trace, Event("process", "A", stack[n - 1].fid, saw))
    /\ UNCHANGED <<processors, status, root, ctx, error, finished, lastOp>>
    /\ UNCHANGED <<moduleVars, threadVars, initVars>>

\* Leaf A's process returns.
LeafReturn ==
    /\ status = "running"
    /\ Top.self = "A"
    /\ Top.i = 2
    /\ stack' = ReturnTo(stack)
    /\ trace' = Append(trace, Event("return", "A", Top.fid, <<>>))
    /\ UNCHANGED <<processors, status, root, ctx, error, finished, lastOp>>
    /\ UNCHANGED <<moduleVars, threadVars, initVars>>

\* The body of leaf R's process raises.
LeafRaise ==
    /\ status = "running"
    /\ Top.self = "R"
    /\ status' = "raising"
    /\ error' = [exc |-> "RuntimeError", origin |-> "R"]
    /\ trace' = Append(trace, Event("raise", "R", Top.fid, <<>>))
    /\ UNCHANGED <<processors, stack, root, ctx, finished, lastOp>>
    /\ UNCHANGED <<moduleVars, threadVars, initVars>>

\* A group that catches what its child raised and goes on with the next one.
PropagateCaught ==
    /\ status = "raising"
    /\ IF Top.self \in Groups
       THEN /\ stack' = [stack EXCEPT ![Len(stack)].i = @ + 1]
            /\ status' = "running"
            /\ error' = NoValue
       ELSE /\ stack' = SubSeq(stack, 1, Len(stack) - 1)
            /\ UNCHANGED <<status, error>>
    /\ UNCHANGED <<processors, root, ctx, trace, finished, lastOp>>
    /\ UNCHANGED <<moduleVars, threadVars, initVars>>

\* No process frame has a try (lines 244-251): the exception leaves the top
\* frame, and the caller's call once no frame is left.
Propagate ==
    /\ status = "raising"
    /\ stack' = SubSeq(stack, 1, Len(stack) - 1)
    /\ IF Len(stack) = 1
       THEN status' = "raised" /\ finished' = Top
       ELSE UNCHANGED <<status, finished>>
    /\ UNCHANGED <<processors, root, ctx, trace, error, lastOp>>
    /\ UNCHANGED <<moduleVars, threadVars, initVars>>

GroupInit ==
    /\ processors = [g \in Groups |-> <<>>]
    /\ stack = <<>> /\ status = "idle" /\ root = "" /\ ctx = EmptyDict
    /\ trace = <<>> /\ error = NoValue /\ finished = NoValue
    /\ lastOp = [op |-> "none", g |-> "", v |-> "", raised |-> FALSE, exc |-> ""]
    /\ modules = EmptyDict
    /\ env = [n \in Names |-> "ok"]
    /\ imports = [n \in Names |-> 0]
    /\ ret = NoCall
    /\ pc = <<>> /\ tkey = <<>> /\ tmod = <<>> /\ tcached = <<>> /\ trv = <<>>
    /\ obj = [op |-> "none"]

GroupNext ==
    \/ \E g \in Groups, v \in Objs : Add(g, v)
    \/ \E g \in Groups, v \in Objs : IAdd(g, v)
    \/ \E g \in Groups, c \in Contexts : CallProcess(g, c)
    \/ CallChild
    \/ GroupReturn
    \/ LeafProcess
    \/ LeafReturn
    \/ LeafRaise
    \/ Propagate

SpecGroup == GroupInit /\ [][GroupNext]_vars

\* The calls and returns of a trace, in the order they happened.
CallsAndReturns(tr) ==
    LET sel == SelectSeq(tr, LAMBDA e : e.ev \in {"call", "return"})
    IN [k \in 1 .. Len(sel) |-> <<sel[k].ev, sel[k].p>>]

\* The calls and returns of one depth-first, in-order run of p in which every
\* process returns: p is entered, each child of its list is run to its return
\* before the next one is entered, p returns.
RECURSIVE DepthFirst(_), DepthFirstFrom(_, _)
DepthFirst(p) ==
    IF p \in Groups
    THEN <<<<"call", p>>>> \o DepthFirstFrom(processors[p], 1) \o <<<<"return", p>>>>
    ELSE <<<<"call", p>>, <<"return", p>>>>
DepthFirstFrom(list, k) ==
    IF k > Len(list) THEN <<>>
    ELSE DepthFirst(list[k]) \o DepthFirstFrom(list, k + 1)

UpTo(n) == [j \in 1 .. n |-> j]

\* C1: one call of process invokes the children of the list exactly once
\* each, in index order, none before the previous one has returned, a nested
\* group running all its children before its next sibling starts: a call that
\* has returned has made exactly the calls of the depth-first run of its
\* tree, and at any moment every group frame has called the children
\* 1..n of its list in that order, all of them returned but the one in
\* progress, which is the frame above it.
C1_InOrderExactlyOnce ==
    /\ status = "returned" => CallsAndReturns(trace) = DepthFirst(root)
    /\ \A k \in 1 .. Len(stack) :
          stack[k].self \in Groups =>
              LET f == stack[k]
                  n == Len(f.invoked)
              IN /\ f.invoked = UpTo(n)
                 /\ n <= Len(processors[f.self])
                 /\ f.returned = UpTo(Len(f.returned))
                 /\ k < Len(stack) =>
                       /\ Len(f.returned) = n - 1
                       /\ stack[k + 1].self = processors[f.self][n]
                 /\ (k = Len(stack) /\ status = "running") =>
                       Len(f.returned) = n

C1_Witness ==
    /\ status = "returned" /\ root = "G1"
    /\ processors["G1"] = <<"G2", "A">>
    /\ processors["G2"] = <<"A", "A">>

\* C2: the children of a group get the same context object: what a child
\* writes under "x" is what every later child of the same group finds there,
\* and what the caller finds in its context once process has returned.
C2_SharedContext ==
    /\ \A i, j \in 1 .. Len(trace) :
          (/\ i < j
           /\ trace[i].ev = "process" /\ trace[j].ev = "process"
           /\ trace[i].parent = trace[j].parent)
          => trace[j].saw = <<"A">>
    /\ (status = "returned" /\ \E i \in 1 .. Len(trace) : trace[i].ev = "process")
          => ("x" \in DOMAIN ctx /\ ctx["x"] = "A")

\* C8: every element of a group's list is a Processor; add and += with a
\* Processor append it and leave the earlier elements as they were, and with
\* anything else raise TypeError and leave every list as it was.
C8_OnlyProcessorsAdded ==
    /\ [](\A g \in Groups : \A k \in 1 .. Len(processors[g]) :
              processors[g][k] \in ProcessorObjs)
    /\ [][lastOp'.op \in {"add", "iadd"} =>
            IF lastOp'.v \in ProcessorObjs
            THEN /\ ~lastOp'.raised
                 /\ Len(processors'[lastOp'.g]) = Len(processors[lastOp'.g]) + 1
                 /\ processors'[lastOp'.g][Len(processors'[lastOp'.g])] = lastOp'.v
                 /\ \A k \in 1 .. Len(processors[lastOp'.g]) :
                       processors'[lastOp'.g][k] = processors[lastOp'.g][k]
                 /\ \A g \in Groups \ {lastOp'.g} : processors'[g] = processors[g]
            ELSE /\ lastOp'.raised /\ lastOp'.exc = "TypeError"
                 /\ processors' = processors]_vars

C8_Witness ==
    /\ lastOp.op = "iadd" /\ lastOp.raised /\ lastOp.v = "42" /\ lastOp.g = "G1"
    /\ processors["G1"] = <<"G2">>
    /\ processors["G2"] = <<"A", "R">>

\* A group frame that an exception has left or is leaving: it called the
\* children 1..i in order, 1..i-1 returned, and none after i was called.
Aborted(f) ==
    LET i == Len(f.invoked)
    IN /\ i >= 1 /\ i <= Len(processors[f.self])
       /\ f.invoked = UpTo(i)
       /\ f.returned = UpTo(i - 1)

\* C9: an error raised by a child is neither caught nor wrapped: it leaves
\* the frame of every enclosing group, one after the other, unchanged, and
\* then the caller's call; in each of these groups the children before the
\* failing one have each run once, and no child after it is invoked (no call
\* is made while the error is in flight).
C9_ErrorPropagates ==
    /\ [](status \in {"raising", "raised"} =>
            /\ error.exc \in {"RuntimeError", "RecursionError"}
            /\ error.exc = "RuntimeError" =>
                  /\ trace[Len(trace)].ev = "raise"
                  /\ trace[Len(trace)].p = error.origin
            /\ \A k \in 1 .. Len(stack) :
                  stack[k].self \in Groups => Aborted(stack[k])
            /\ status = "raised" =>
                  (stack = <<>> /\ finished.self = root /\ Aborted(finished)))
    /\ [][status = "raising" =>
            /\ error' = error
            /\ trace' = trace
            /\ processors' = processors
            /\ stack' = SubSeq(stack, 1, Len(stack) - 1)
            /\ status' = IF Len(stack) = 1 THEN "raised" ELSE "raising"]_vars

C9_Witness ==
    /\ status = "raised" /\ root = "G1"
    /\ processors["G1"] = <<"G2", "A">>
    /\ processors["G2"] = <<"A", "R">>
    /\ error = [exc |-> "RuntimeError", origin |-> "R"]
    /\ CallsAndReturns(trace) =
          <<<<"call", "G1">>, <<"call", "G2">>, <<"call", "A">>,
            <<"return", "A">>, <<"call", "R">>>>

=============================================================================
